---- MODULE Spec2Model ----
(***************************************************************************)
(* A model of app.py: the threaded HTTP gateway that republishes the       *)
(* Samsung TV Plus catalog as an M3U playlist and an XMLTV guide.          *)
(*                                                                         *)
(* Part 1 models the request threads of ThreadingSimpleServer, the two     *)
(* class-level caches with their locks, and what each request writes to    *)
(* its client socket.  Part 2 (further down) models Handler._playlist on   *)
(* concrete catalogs.                                                      *)
(***************************************************************************)
EXTENDS Integers, Sequences, FiniteSets, TLC

\* ------------------------------------------------------------------------
\* Program constants
\* ------------------------------------------------------------------------

REGION_ALL == "all"
PLAYLIST_PATH == "playlist.m3u8"
EPG_PATH == "epg.xml"
STATUS_PATH == ""
CHANNEL_CACHE_EXPIRY == 300
EPG_CACHE_EXPIRY == 3600

\* ------------------------------------------------------------------------
\* Values
\* ------------------------------------------------------------------------

\* Python's None, and the marker of a thread-local that holds nothing yet.
None == "None"
Unset == "Unset"

\* The request threads ThreadingMixIn runs side by side.
Threads == {"t1", "t2"}

\* The two caches, named after their locks' prefixes.
Caches == {"channel", "epg"}

\* What json_data['regions'] can be: an empty mapping, a well-formed
\* catalog, and a mapping whose regions and channels lack the keys the
\* handlers read ('name', 'logo', ...).
CatalogValues == {"EmptyCatalog", "Catalog", "MalformedCatalog"}

\* What gz.read() can return: empty bytes or a document.
EpgValues == {"EmptyXml", "Xml"}

\* How the upstream can answer requests.get(APP_URL): a failure kind, or a
\* 2xx JSON body holding 'regions'.
ChannelResponses ==
    {"ConnectionError", "HTTPError", "BadJSON", "NoRegions"} \cup CatalogValues

\* How the upstream can answer requests.get(EPG_URL).
EpgResponses == {"ConnectionError", "HTTPError", "BadGzip"} \cup EpgValues

Responses(k) == IF k = "channel" THEN ChannelResponses ELSE EpgResponses

\* Python truthiness of a cached value: None, {} and b'' are falsy.
Truthy(v) == v \notin {None, "EmptyCatalog", "EmptyXml"}

\* The paths a request can ask for: the three routes, the static icon and a
\* path that is no key of `routes`.
Funcs == {PLAYLIST_PATH, EPG_PATH, STATUS_PATH, "favicon.ico", "clear_cache"}

Routes == {PLAYLIST_PATH, EPG_PATH, STATUS_PATH}

\* The cache a route's handler reads.
CacheOf(f) == IF f = EPG_PATH THEN "epg" ELSE "channel"

\* A server with one lock for both caches.
LockOfShared(k) == "channel_cache_lock"

\* The lock a cached getter takes.
LockOf(k) == IF k = "channel" THEN "channel_cache_lock" ELSE "epg_cache_lock"

\* The expiry a cached getter compares against.
Expiry(k) == IF k = "channel" THEN CHANNEL_CACHE_EXPIRY ELSE EPG_CACHE_EXPIRY

\* The instants time() is observed at: the TTL boundaries of both caches.
Instants ==
    {0, CHANNEL_CACHE_EXPIRY - 1, CHANNEL_CACHE_EXPIRY,
     EPG_CACHE_EXPIRY - 1, EPG_CACHE_EXPIRY}

\* At most this many playlist entries survive the filters of one request.
MaxEntries == 2

\* ------------------------------------------------------------------------
\* Part 1: state
\* ------------------------------------------------------------------------

VARIABLES
    cached_data,          \* Handler.cached_data
    cache_timestamp,      \* Handler.cache_timestamp
    epg_cache_data,       \* Handler.epg_cache_data
    epg_cache_timestamp,  \* Handler.epg_cache_timestamp
    channel_cache_lock,   \* holder of Handler.channel_cache_lock, or Free
    epg_cache_lock,       \* holder of Handler.epg_cache_lock, or Free
    now,                  \* what time() returns
    pc,                   \* where each request thread stands
    func,                 \* the path each thread's request asks for
    current_time,         \* the getter's local current_time
    response,             \* the getter's local response: the upstream's answer
    result,               \* what the cached getter returned to the handler
    wfile,                \* the chunks the request wrote to its client, in order
    failed_writes,        \* writes of the request that raised BrokenPipeError
    raised,               \* the exception that left do_GET, or NoExc
    catalog,              \* Part 2: the all_channels _playlist is given
    params,               \* Part 2: the request's parameters and environment
    playlist              \* Part 2: what _playlist raised and wrote

cacheVars ==
    <<cached_data, cache_timestamp, epg_cache_data, epg_cache_timestamp>>

lockVars == <<channel_cache_lock, epg_cache_lock>>

sockVars == <<wfile, failed_writes, raised>>

plVars == <<catalog, params, playlist>>

vars ==
    <<cached_data, cache_timestamp, epg_cache_data, epg_cache_timestamp,
      channel_cache_lock, epg_cache_lock, now, pc, func, current_time,
      response, result, wfile, failed_writes, raised, catalog, params,
      playlist>>

NoExc == "NoExc"
Free == "free"

\* The timestamps' initial None (no instant is negative).
NoStamp == -1

Data(k) == IF k = "channel" THEN cached_data ELSE epg_cache_data

Stamp(k) == IF k = "channel" THEN cache_timestamp ELSE epg_cache_timestamp

\* Locks that never make a thread wait.
HolderIgnored(l) == Free

Holder(l) ==
    IF l = "channel_cache_lock" THEN channel_cache_lock ELSE epg_cache_lock

\* Locks that are taken and never released.
SetLockNeverReleased(l, v) ==
    /\ channel_cache_lock' =
           IF l = "channel_cache_lock" /\ v # Free THEN v
           ELSE channel_cache_lock
    /\ epg_cache_lock' =
           IF l = "epg_cache_lock" /\ v # Free THEN v ELSE epg_cache_lock

\* lock.acquire() / lock.release() of lock l.
SetLock(l, v) ==
    /\ channel_cache_lock' =
           IF l = "channel_cache_lock" THEN v ELSE channel_cache_lock
    /\ epg_cache_lock' = IF l = "epg_cache_lock" THEN v ELSE epg_cache_lock

\* The first assignment of a successful refresh of cache k, lines 59, 89.
StoreData(k, v) ==
    /\ cached_data' = IF k = "channel" THEN v ELSE cached_data
    /\ epg_cache_data' = IF k = "epg" THEN v ELSE epg_cache_data

\* A refresh that leaves the timestamp as it was.
StoreStampSkipped(k, ts) ==
    UNCHANGED <<cache_timestamp, epg_cache_timestamp>>

\* The second assignment of a successful refresh, lines 60, 90.
StoreStamp(k, ts) ==
    /\ cache_timestamp' = IF k = "channel" THEN ts ELSE cache_timestamp
    /\ epg_cache_timestamp' = IF k = "epg" THEN ts ELSE epg_cache_timestamp

\* The test of lines 46 and 79: a truthy value younger than the expiry.
\* `and` short-circuits, so a None timestamp is never subtracted.
Fresh(k, t) == Truthy(Data(k)) /\ (t - Stamp(k)) < Expiry(k)

\* A getter that drops its entry when the refresh fails.
OutcomeInvalidating(k, r) ==
    IF r \in CatalogValues \cup EpgValues
    THEN [store |-> r, ret |-> r]
    ELSE IF r = "BadGzip"
    THEN [store |-> None, ret |-> "OSError"]
    ELSE [store |-> None, ret |-> None]

\* What the getter of cache k makes of the upstream's answer r: the value
\* it stores (Unset: none) and what it returns, or the exception it raises.
Outcome(k, r) ==
    IF r \in CatalogValues \cup EpgValues
    THEN [store |-> r, ret |-> r]
    ELSE IF r = "BadGzip"
    THEN [store |-> Unset, ret |-> "OSError"]
    ELSE [store |-> Unset, ret |-> None]

\* The exceptions the model tells apart.
Exceptions ==
    {"OSError", "RuntimeError", "BrokenPipeError", "ValueError", "KeyError"}

\* str(e) of each.
Message(e) ==
    CASE e = "OSError" -> "Not a gzipped file"
      [] e = "RuntimeError" -> "No active exception to reraise"
      [] e = "BrokenPipeError" -> "[Errno 32] Broken pipe"
      [] e = "ValueError" -> "invalid literal for int() with base 10"
      [] OTHER -> "'chno'"

StatusLine(code) ==
    CASE code = 200 -> "HTTP 200"
      [] code = 404 -> "HTTP 404"
      [] OTHER -> "HTTP 500"

ErrorBody(message) == "Error: " \o message

\* ------------------------------------------------------------------------
\* Part 1: what one request writes
\*
\* A socket is [w, fw, left, exc]: the chunks written, the writes that
\* failed, the number of further writes the client takes before it closes
\* its end, and the exception the last call raised (NoExc: none).
\* ------------------------------------------------------------------------

\* A client that takes `left` writes.
Socket(left) == [w |-> <<>>, fw |-> 0, left |-> left, exc |-> NoExc]

\* self.wfile.write(c), and end_headers() writing the status line out.
Write(s, c) ==
    IF s.left = 0
    THEN [s EXCEPT !.fw = @ + 1, !.exc = "BrokenPipeError"]
    ELSE [s EXCEPT !.w = @ \o <<c>>, !.left = @ - 1]

\* Handler._error: the status line, the body, then a bare raise, which
\* re-raises the exception being handled (`active`) or, when none is,
\* raises RuntimeError.
ErrorCall(s, message, active) ==
    LET head == Write([s EXCEPT !.exc = NoExc], StatusLine(500))
        body == Write(head, ErrorBody(message))
    IN IF head.exc # NoExc THEN head
       ELSE IF body.exc # NoExc THEN body
       ELSE [body EXCEPT
               !.exc = IF active = NoExc THEN "RuntimeError" ELSE active]

\* The message of a handler whose getter returned None.
FailureMessage(f) ==
    IF f = EPG_PATH
    THEN "Failed to retrieve EPG file."
    ELSE "Failed to retrieve data from server."

\* The loop of lines 182-220 over n surviving channels: a BrokenPipeError
\* of an entry's write is caught at line 218 and ends the loop.
RECURSIVE WriteEntries(_, _)
WriteEntries(s, n) ==
    IF n = 0 THEN s
    ELSE LET e == Write(s, "#EXTINF")
         IN IF e.exc # NoExc
            THEN [e EXCEPT !.exc = NoExc]
            ELSE WriteEntries(e, n - 1)

\* Handler._playlist on getter result all_channels, for a request whose
\* start_chno int() rejects (bad_start_chno) and whose filters n channels
\* survive.  sorted() at line 182 raises KeyError on a channel without the
\* sort key; the write of line 181 is guarded by line 221.  _error's
\* exceptions are no RequestException, so line 224 lets them pass.
Playlist(s, all_channels, bad_start_chno, n) ==
    IF all_channels \in Exceptions THEN [s EXCEPT !.exc = all_channels]
    ELSE IF all_channels = None
    THEN ErrorCall(s, FailureMessage(PLAYLIST_PATH), NoExc)
    ELSE IF bad_start_chno THEN [s EXCEPT !.exc = "ValueError"]
    ELSE LET head == Write(s, StatusLine(200))
             m3u == Write(head, "#EXTM3U")
         IN IF head.exc # NoExc THEN head
            ELSE IF m3u.exc # NoExc THEN [m3u EXCEPT !.exc = NoExc]
            ELSE IF all_channels = "MalformedCatalog"
            THEN [m3u EXCEPT !.exc = "KeyError"]
            ELSE WriteEntries(m3u,
                              IF all_channels = "EmptyCatalog" THEN 0 ELSE n)

\* Handler._epg on getter result epg_data.
Epg(s, epg_data) ==
    IF epg_data \in Exceptions THEN [s EXCEPT !.exc = epg_data]
    ELSE IF epg_data = None
    THEN ErrorCall(s, FailureMessage(EPG_PATH), NoExc)
    ELSE LET head == Write(s, StatusLine(200))
         IN IF head.exc # NoExc THEN head ELSE Write(head, epg_data)

\* Handler._status on getter result all_channels; region_data["name"] is
\* read after the page's first write.
Status(s, all_channels) ==
    IF all_channels \in Exceptions THEN [s EXCEPT !.exc = all_channels]
    ELSE IF all_channels = None
    THEN ErrorCall(s, FailureMessage(STATUS_PATH), NoExc)
    ELSE LET head == Write(s, StatusLine(200))
             top == Write(head, "<html>")
         IN IF head.exc # NoExc THEN head
            ELSE IF top.exc # NoExc THEN top
            ELSE IF all_channels = "MalformedCatalog"
            THEN [top EXCEPT !.exc = "KeyError"]
            ELSE Write(top, "</html>")

\* do_GET, lines 133-137: the route's handler, and _error(e) for whatever
\* exception e it lets out.
RunRoute(s, f, res, bad_start_chno, n) ==
    LET h == IF f = PLAYLIST_PATH THEN Playlist(s, res, bad_start_chno, n)
             ELSE IF f = EPG_PATH THEN Epg(s, res)
             ELSE Status(s, res)
    IN IF h.exc = NoExc THEN h ELSE ErrorCall(h, Message(h.exc), h.exc)

\* do_GET, lines 113-115 and 139-149: the icon, found on disk or not.
ServeFaviconTo(s, found) ==
    LET head == Write(s, StatusLine(IF found THEN 200 ELSE 404))
    IN IF found /\ head.exc = NoExc THEN Write(head, "favicon") ELSE head

\* do_GET, lines 127-131: a path that is no key of `routes`.
NotFoundTo(s) == Write(s, StatusLine(404))

\* The numbers of writes a client can take before it closes its end; the
\* largest is more than any request writes.
Patience == 0 .. (MaxEntries + 3)

Connected == MaxEntries + 3

\* ------------------------------------------------------------------------
\* Part 2: Handler._playlist on a concrete catalog
\*
\* A dict is a sequence in insertion order.  The catalog (all_channels) is
\* a sequence of regions [code, channels]; a channel is
\* [key, chno, name, group, license_url].  The request is
\* [regions, env_regions, groups, env_groups, include, exclude, has_start,
\* start_chno, sort]: the comma-separated parameters as the token sequences
\* split(',') gives, <<>> for a parameter that is absent or empty and for
\* an environment variable that is not set; a variable set to the empty
\* string is <<"">>, as ''.split(',') is [''].
\* ------------------------------------------------------------------------

\* A channel's 'chno' that is JSON null, and a channel without the key.
ChnoNull == -1
ChnoMissing == -2

\* chno = '' of line 206: the entry carries no tvg-chno attribute.
NoChnoAttr == -1

\* The largest channel number of a catalog.
MaxChno == 2

Range(q) == {q[i] : i \in DOMAIN q}

\* str.lower() on the strings of the model.
Lower(x) ==
    CASE x = "US" -> "us"
      [] x = "GB" -> "gb"
      [] x = "ALL" -> "all"
      [] x = "News" -> "news"
      [] x = "Kids TV" -> "kids tv"
      [] x = "Zeta" -> "zeta"
      [] x = "Beta" -> "beta"
      [] x = " Beta " -> " beta "
      [] OTHER -> x

\* str.strip() on the strings of the model.
Strip(x) ==
    CASE x = " gb" -> "gb"
      [] x = " Beta " -> "Beta"
      [] x = " beta " -> "beta"
      [] OTHER -> x

\* urllib.parse.unquote on the strings of the model.
Unquote(x) ==
    CASE x = "Kids%20TV" -> "Kids TV"
      [] OTHER -> x

\* The names of the model and their lower-cased, stripped forms, in
\* Python's string order (by code point: space, upper case, lower case).
StringOrder ==
    <<" Beta ", " beta ", "Beta", "Zeta", "alpha", "beta", "zeta">>

StrRank(x) == CHOOSE i \in DOMAIN StringOrder : StringOrder[i] = x

\* f'samsung-{key}', line 190.
ChannelId(key) == "samsung-" \o key

\* Lines 159-160: the requested region codes.
RequestedRegions(p) ==
    LET raw == IF p.regions # <<>> THEN p.regions
               ELSE IF p.env_regions # <<>> THEN p.env_regions
               ELSE <<REGION_ALL>>
    IN [i \in DOMAIN raw |-> Lower(Strip(raw[i]))]

\* Line 161: the catalog's regions that are asked for, in catalog order.
ResolveRegions(cat, p) ==
    LET wanted == Range(RequestedRegions(p))
    IN SelectSeq(cat, LAMBDA r : Lower(r.code) \in wanted
                                 \/ REGION_ALL \in wanted)

\* Lines 162-164: the group filter.
GroupFilter(p) ==
    LET raw == IF p.groups # <<>> THEN p.groups ELSE p.env_groups
        low == [i \in DOMAIN raw |-> Lower(Unquote(raw[i]))]
    IN SelectSeq(low, LAMBDA g : g # "")

\* dict.__setitem__: a key the dict holds keeps its place and takes the
\* new value; a new key goes last.
Put(chs, c) ==
    IF \E i \in DOMAIN chs : chs[i].key = c.key
    THEN [i \in DOMAIN chs |-> IF chs[i].key = c.key THEN c ELSE chs[i]]
    ELSE Append(chs, c)

\* dict.update, line 178.
RECURSIVE Update(_, _)
Update(chs, new) ==
    IF new = <<>> THEN chs ELSE Update(Put(chs, Head(new)), Tail(new))

\* Lines 175-178: the channels of the resolved regions, merged.
RECURSIVE MergeChannels(_)
MergeChannels(regs) ==
    IF regs = <<>> THEN <<>>
    ELSE Update(MergeChannels(SubSeq(regs, 1, Len(regs) - 1)),
                regs[Len(regs)].channels)

\* A key function that compares names as they are written.
SortKeyCaseSensitive(c, sort) ==
    IF sort = "chno" THEN c.chno ELSE StrRank(Strip(c.name))

\* The key function of line 182, with strings ranked in Python's order.
SortKey(c, sort) ==
    IF sort = "chno" THEN c.chno ELSE StrRank(Lower(Strip(c.name)))

\* What sorted() raises at line 182: KeyError when a key function finds no
\* 'chno'; TypeError when None is compared, which happens as soon as two
\* or more keys are sorted and one is None.
SortRaises(chs, sort) ==
    IF sort # "chno" THEN NoExc
    ELSE IF \E i \in DOMAIN chs : chs[i].chno = ChnoMissing THEN "KeyError"
    ELSE IF Len(chs) >= 2 /\ \E i \in DOMAIN chs : chs[i].chno = ChnoNull
    THEN "TypeError"
    ELSE NoExc

\* c goes after every element whose key is not greater: the sort is stable.
InsertSorted(done, c, sort) ==
    LET n == Cardinality({i \in DOMAIN done :
                             SortKey(done[i], sort) <= SortKey(c, sort)})
    IN SubSeq(done, 1, n) \o <<c>> \o SubSeq(done, n + 1, Len(done))

\* sorted(), line 182, when it raises nothing.
RECURSIVE Sorted(_, _)
Sorted(chs, sort) ==
    IF chs = <<>> THEN <<>>
    ELSE InsertSorted(Sorted(SubSeq(chs, 1, Len(chs) - 1), sort),
                      chs[Len(chs)], sort)

\* A loop without the check of line 193.
LicenseRequiredNever(c) == FALSE

\* Line 193: channel.get('license_url') is truthy.
LicenseRequired(c) == c.license_url \notin {Unset, None, ""}

\* A loop that reads the include list and not the exclude list.
IncludeSkipsOnly(c, p) ==
    p.include # <<>> /\ ChannelId(c.key) \notin Range(p.include)

\* Line 197: the include and exclude lists.
IncludeExcludeSkips(c, p) ==
    \/ p.include # <<>> /\ ChannelId(c.key) \notin Range(p.include)
    \/ p.exclude # <<>> /\ ChannelId(c.key) \in Range(p.exclude)

\* Line 202: the group filter.
GroupSkips(c, p) ==
    LET groups == GroupFilter(p)
    IN groups # <<>> /\ Lower(c.group) \notin Range(groups)

\* A loop that never runs line 210: every entry carries the requested
\* start_chno.
ChnoAttrWithoutIncrement(c, p, start_chno) ==
    IF p.has_start
    THEN IF p.start_chno > 0 THEN p.start_chno ELSE NoChnoAttr
    ELSE IF c.chno \notin {ChnoNull, ChnoMissing} THEN c.chno
    ELSE NoChnoAttr

\* A loop that takes start_chno = 0 for no start_chno at all.
ChnoAttrZeroAsAbsent(c, p, start_chno) ==
    IF p.has_start /\ start_chno > 0 THEN start_chno
    ELSE IF c.chno \notin {ChnoNull, ChnoMissing} THEN c.chno
    ELSE NoChnoAttr

\* Lines 206-212: the number an entry carries, given the running
\* start_chno (meaningful when the request has one).
ChnoAttr(c, p, start_chno) ==
    IF p.has_start
    THEN IF start_chno > 0 THEN start_chno ELSE NoChnoAttr
    ELSE IF c.chno \notin {ChnoNull, ChnoMissing} THEN c.chno
    ELSE NoChnoAttr

\* Lines 216-217: what an entry shows of its channel.
Entry(c, chno) ==
    [channel_id |-> ChannelId(c.key), tvg_id |-> c.key, group |-> c.group,
     chno |-> chno, name |-> c.name]

\* The loop of lines 182-220 over the sorted channels, from the i-th on.
RECURSIVE EmitFrom(_, _, _, _)
EmitFrom(chs, i, p, start_chno) ==
    IF i > Len(chs) THEN <<>>
    ELSE LET c == chs[i]
         IN IF LicenseRequired(c) \/ IncludeExcludeSkips(c, p)
               \/ GroupSkips(c, p)
            THEN EmitFrom(chs, i + 1, p, start_chno)
            ELSE <<Entry(c, ChnoAttr(c, p, start_chno))>>
                 \o EmitFrom(chs, i + 1, p,
                             IF p.has_start /\ start_chno > 0
                             THEN start_chno + 1 ELSE start_chno)

\* Lines 159-222 for a connected client: the exception that leaves
\* _playlist (NoExc: none), the regions line 176 prints and the entries
\* written after '#EXTM3U'.
GeneratePlaylist(cat, p) ==
    LET regs == ResolveRegions(cat, p)
        regions == [i \in DOMAIN regs |-> regs[i].code]
        channels == MergeChannels(regs)
        exc == SortRaises(channels, p.sort)
    IN IF exc # NoExc
       THEN [exc |-> exc, regions |-> regions, entries |-> <<>>]
       ELSE [exc |-> NoExc, regions |-> regions,
             entries |-> EmitFrom(Sorted(channels, p.sort), 1, p,
                                  p.start_chno)]

\* ------------------------------------------------------------------------
\* Part 2: the catalogs and requests _playlist is run on
\* ------------------------------------------------------------------------

ChnoValues == {ChnoMissing, ChnoNull} \cup (1 .. MaxChno)

LicenseValues == {Unset, "https://license"}

\* The channels of one key, name and group.
Slot(key, name, group) ==
    {[key |-> key, chno |-> n, name |-> name, group |-> group,
      license_url |-> l] : n \in ChnoValues, l \in LicenseValues}

\* A channel of S, or none.
Optional(S) == {<<>>} \cup {<<c>> : c \in S}

UsChannels ==
    {a \o b : a \in Optional(Slot("k1", "Zeta", "News")),
              b \in Optional(Slot("k2", "alpha", "Kids TV"))}

\* The second region's channel shares its key with one of the first's, or
\* does not.
GbChannels ==
    Optional(Slot("k2", " Beta ", "News") \cup Slot("k3", "Beta", "Kids TV"))

\* Two regions, in either order.
Catalogs ==
    {IF us_first
     THEN <<[code |-> "us", channels |-> u], [code |-> "GB", channels |-> g]>>
     ELSE <<[code |-> "GB", channels |-> g], [code |-> "us", channels |-> u]>> :
         u \in UsChannels, g \in GbChannels, us_first \in BOOLEAN}

\* The regions parameter with the REGIONS variable of the environment.
Selectors ==
    {<< <<>>, <<>> >>, << <<>>, <<"us">> >>, << <<>>, <<"">> >>,
     << <<"ALL">>, <<"us">> >>, << <<"US">>, <<>> >>,
     << <<" gb", "zz">>, <<>> >>}

Requests ==
    {[regions |-> sel[1], env_regions |-> sel[2],
      groups |-> g, env_groups |-> <<>>,
      include |-> inc, exclude |-> exc,
      has_start |-> start >= 0, start_chno |-> IF start >= 0 THEN start ELSE 0,
      sort |-> srt] :
         sel \in Selectors,
         g \in {<<>>, <<"Kids%20TV", "">>},
         inc \in {<<>>, <<"samsung-k1", "samsung-k3">>},
         exc \in {<<>>, <<"samsung-k1">>},
         start \in {-1, 0, 5},
         srt \in {"chno", "name", "CHNO"}}

\* A request without parameters, in an environment without variables.
NoParams ==
    [regions |-> <<>>, env_regions |-> <<>>, groups |-> <<>>,
     env_groups |-> <<>>, include |-> <<>>, exclude |-> <<>>,
     has_start |-> FALSE, start_chno |-> 0, sort |-> "chno"]

\* _playlist has not run.
NotRun == [exc |-> Unset, regions |-> <<>>, entries |-> <<>>]

\* ------------------------------------------------------------------------
\* Part 1: the request threads
\* ------------------------------------------------------------------------

Init ==
    /\ cached_data = None
    /\ cache_timestamp = NoStamp
    /\ epg_cache_data = None
    /\ epg_cache_timestamp = NoStamp
    /\ channel_cache_lock = Free
    /\ epg_cache_lock = Free
    /\ now = 0
    /\ pc = [t \in Threads |-> "idle"]
    /\ func = [t \in Threads |-> Unset]
    /\ current_time = [t \in Threads |-> 0]
    /\ response = [t \in Threads |-> Unset]
    /\ result = [t \in Threads |-> Unset]
    /\ wfile = [t \in Threads |-> <<>>]
    /\ failed_writes = [t \in Threads |-> 0]
    /\ raised = [t \in Threads |-> NoExc]
    /\ catalog = <<>>
    /\ params = NoParams
    /\ playlist = NotRun

\* A thread-local is written for thread t only.
Set(f, t, v) == [f EXCEPT ![t] = v]

\* do_GET is left with socket s: what was written, what was raised.
Leave(t, s) ==
    /\ wfile' = Set(wfile, t, s.w)
    /\ failed_writes' = Set(failed_writes, t, s.fw)
    /\ raised' = Set(raised, t, s.exc)
    /\ result' = Set(result, t, Unset)
    /\ pc' = Set(pc, t, "done")

\* A request arrives: ThreadingMixIn starts a thread that runs do_GET.
Accept(t) ==
    /\ pc[t] = "idle"
    /\ \E f \in Funcs : func' = Set(func, t, f)
    /\ pc' = Set(pc, t, "dispatch")
    /\ UNCHANGED <<plVars, cacheVars, lockVars, now, current_time, response, result,
                   sockVars>>

\* do_GET serves the icon to a client of patience P.
ServeFavicon(t, P) ==
    /\ pc[t] = "dispatch"
    /\ func[t] = "favicon.ico"
    /\ \E found \in BOOLEAN, left \in P :
          Leave(t, ServeFaviconTo(Socket(left), found))
    /\ UNCHANGED <<plVars, cacheVars, lockVars, now, func, current_time, response>>

\* do_GET answers a path it has no route for.
NotFound(t, P) ==
    /\ pc[t] = "dispatch"
    /\ func[t] \notin Routes \cup {"favicon.ico"}
    /\ \E left \in P : Leave(t, NotFoundTo(Socket(left)))
    /\ UNCHANGED <<plVars, cacheVars, lockVars, now, func, current_time, response>>

\* do_GET, line 134: the route's handler starts, and calls its getter.
CallGetter(t) ==
    /\ pc[t] = "dispatch"
    /\ func[t] \in Routes
    /\ pc' = Set(pc, t, "wait")
    /\ UNCHANGED <<plVars, cacheVars, lockVars, now, func, current_time, response,
                   result, sockVars>>

\* Lines 44-45 and 77-78: take the cache's lock, read the clock.
Acquire(t) ==
    /\ pc[t] = "wait"
    /\ Holder(LockOf(CacheOf(func[t]))) = Free
    /\ SetLock(LockOf(CacheOf(func[t])), t)
    /\ current_time' = Set(current_time, t, now)
    /\ pc' = Set(pc, t, "locked")
    /\ UNCHANGED <<plVars, cacheVars, now, func, response, result, sockVars>>

\* Lines 46-48 and 79-81: a fresh entry is returned, the lock released.
CacheHit(t) ==
    LET k == CacheOf(func[t])
    IN /\ pc[t] = "locked"
       /\ Fresh(k, current_time[t])
       /\ result' = Set(result, t, Data(k))
       /\ SetLock(LockOf(k), Free)
       /\ current_time' = Set(current_time, t, 0)
       /\ pc' = Set(pc, t, "got")
       /\ UNCHANGED <<plVars, cacheVars, now, func, response, sockVars>>

\* Lines 49-52 and 82-85: no fresh entry, so the request goes upstream.
\* requests.get is given no timeout.
StartFetch(t) ==
    LET k == CacheOf(func[t])
    IN /\ pc[t] = "locked"
       /\ ~Fresh(k, current_time[t])
       /\ response' = Set(response, t, "pending")
       /\ pc' = Set(pc, t, "fetching")
       /\ UNCHANGED <<plVars, cacheVars, lockVars, now, func, current_time, result,
                      sockVars>>

\* Lines 52-72 and 85-96: the upstream answers r.  The getter assigns a
\* decoded value to the cache's data attribute (line 59, 89) and goes on,
\* with the lock, to the timestamp; or it stores nothing and returns or
\* raises, the with statement releasing the lock.
FetchReturn(t) ==
    LET k == CacheOf(func[t])
    IN /\ pc[t] = "fetching"
       /\ \E r \in Responses(k) :
            LET o == Outcome(k, r)
            IN /\ response' = Set(response, t, r)
               /\ IF o.store = Unset
                  THEN /\ result' = Set(result, t, o.ret)
                       /\ SetLock(LockOf(k), Free)
                       /\ current_time' = Set(current_time, t, 0)
                       /\ pc' = Set(pc, t, "got")
                       /\ UNCHANGED cacheVars
                  ELSE /\ StoreData(k, o.store)
                       /\ pc' = Set(pc, t, "storing")
                       /\ UNCHANGED <<cache_timestamp, epg_cache_timestamp,
                                      lockVars, current_time, result>>
       /\ UNCHANGED <<plVars, now, func, sockVars>>

\* Lines 60-62 and 90-92: the timestamp takes the time read at line 45/78
\* and the getter returns the attribute it has just assigned, the with
\* statement releasing the lock.
StoreTimestamp(t) ==
    LET k == CacheOf(func[t])
    IN /\ pc[t] = "storing"
       /\ StoreStamp(k, current_time[t])
       /\ UNCHANGED <<cached_data, epg_cache_data>>
       /\ result' = Set(result, t, Data(k))
       /\ SetLock(LockOf(k), Free)
       /\ current_time' = Set(current_time, t, 0)
       /\ pc' = Set(pc, t, "got")
       /\ UNCHANGED <<plVars, now, func, response, sockVars>>

\* The rest of the handler and of do_GET, for a client of patience P.
Respond(t, P) ==
    /\ pc[t] = "got"
    /\ \E bad_start_chno \in BOOLEAN, n \in 0..MaxEntries, left \in P :
          Leave(t, RunRoute(Socket(left), func[t], result[t],
                            bad_start_chno, n))
    /\ UNCHANGED <<plVars, cacheVars, lockVars, now, func, current_time, response>>

\* The request is over: the thread and its locals are gone.
Finish(t) ==
    /\ pc[t] = "done"
    /\ pc' = Set(pc, t, "idle")
    /\ func' = Set(func, t, Unset)
    /\ response' = Set(response, t, Unset)
    /\ wfile' = Set(wfile, t, <<>>)
    /\ failed_writes' = Set(failed_writes, t, 0)
    /\ raised' = Set(raised, t, NoExc)
    /\ UNCHANGED <<plVars, cacheVars, lockVars, now, current_time, result>>

\* Time passes.
Tick ==
    /\ \E later \in Instants : later > now /\ now' = later
    /\ UNCHANGED <<plVars, cacheVars, lockVars, pc, func, current_time, response,
                   result, sockVars>>

\* What a request thread does by itself once accepted, for a client of
\* patience P.
Step(t, P) ==
    \/ ServeFavicon(t, P)
    \/ NotFound(t, P)
    \/ CallGetter(t)
    \/ Acquire(t)
    \/ CacheHit(t)
    \/ StartFetch(t)
    \/ StoreTimestamp(t)
    \/ Respond(t, P)
    \/ Finish(t)

\* The server: request threads side by side, their clients connected
\* throughout.
Next ==
    \/ \E t \in Threads : Accept(t)
    \/ \E t \in Threads : Step(t, {Connected})
    \/ \E t \in Threads : FetchReturn(t)
    \/ Tick

Spec == Init /\ [][Next]_vars

\* One request after another, from clients of every patience.
RequestNext ==
    \/ Accept("t1")
    \/ Step("t1", Patience)
    \/ FetchReturn("t1")
    \/ Tick

RequestSpec == Init /\ [][RequestNext]_vars

\* ------------------------------------------------------------------------
\* Concurrent callers: every thread has called its getter (line 153, 229 or
\* 249) and none has the lock yet, while neither cache holds a fresh entry:
\* a cache is still unset, or holds a value stored at instant 0 that has
\* expired by now.
\* ------------------------------------------------------------------------

ConcurrentInit ==
    /\ now \in Instants
    /\ \/ cached_data = None /\ cache_timestamp = NoStamp
       \/ /\ cached_data = "Catalog" /\ cache_timestamp = 0
          /\ now >= CHANNEL_CACHE_EXPIRY
    /\ \/ epg_cache_data = None /\ epg_cache_timestamp = NoStamp
       \/ /\ epg_cache_data = "Xml" /\ epg_cache_timestamp = 0
          /\ now >= EPG_CACHE_EXPIRY
    /\ channel_cache_lock = Free
    /\ epg_cache_lock = Free
    /\ pc = [t \in Threads |-> "wait"]
    /\ func \in [Threads -> Routes]
    /\ current_time = [t \in Threads |-> 0]
    /\ response = [t \in Threads |-> Unset]
    /\ result = [t \in Threads |-> Unset]
    /\ wfile = [t \in Threads |-> <<>>]
    /\ failed_writes = [t \in Threads |-> 0]
    /\ raised = [t \in Threads |-> NoExc]
    /\ catalog = <<>>
    /\ params = NoParams
    /\ playlist = NotRun

\* What a thread does by itself from its getter's call to its response.
Serve(t) ==
    \/ Acquire(t)
    \/ CacheHit(t)
    \/ StartFetch(t)
    \/ StoreTimestamp(t)
    \/ Respond(t, {Connected})

ConcurrentNext ==
    \/ \E t \in Threads : Serve(t)
    \/ \E t \in Threads : FetchReturn(t)
    \/ Tick

ConcurrentSpec == ConcurrentInit /\ [][ConcurrentNext]_vars

\* The same callers under the scheduling the interpreter gives them: a
\* runnable thread runs, and a thread waiting for a lock that is released
\* again and again gets it.  Nothing makes the upstream answer, and
\* requests.get has no timeout that would end the wait.
FairConcurrentSpec ==
    /\ ConcurrentSpec
    /\ \A t \in Threads : WF_vars(Serve(t)) /\ SF_vars(Acquire(t))

\* ------------------------------------------------------------------------
\* Part 2: _playlist run on every catalog and request of the model
\* ------------------------------------------------------------------------

PlaylistInit ==
    /\ cached_data = None
    /\ cache_timestamp = NoStamp
    /\ epg_cache_data = None
    /\ epg_cache_timestamp = NoStamp
    /\ channel_cache_lock = Free
    /\ epg_cache_lock = Free
    /\ now = 0
    /\ pc = [t \in Threads |-> "idle"]
    /\ func = [t \in Threads |-> Unset]
    /\ current_time = [t \in Threads |-> 0]
    /\ response = [t \in Threads |-> Unset]
    /\ result = [t \in Threads |-> Unset]
    /\ wfile = [t \in Threads |-> <<>>]
    /\ failed_writes = [t \in Threads |-> 0]
    /\ raised = [t \in Threads |-> NoExc]
    /\ catalog \in Catalogs
    /\ params \in Requests
    /\ playlist = NotRun

Generate ==
    /\ playlist = NotRun
    /\ playlist' = GeneratePlaylist(catalog, params)
    /\ UNCHANGED <<cacheVars, lockVars, now, pc, func, current_time, response,
                   result, sockVars, catalog, params>>

PlaylistSpec == PlaylistInit /\ [][Generate]_vars

\* ------------------------------------------------------------------------
\* Claims
\* ------------------------------------------------------------------------

\* The threads whose handler reads cache k.
Callers(k) == {t \in Threads : func[t] \in Routes /\ CacheOf(func[t]) = k}

\* The upstream answers that carry a value.
Successes == CatalogValues \cup EpgValues

\* C1. Single-flight: when two or more threads call the getter of one cache
\* concurrently while it holds no fresh entry, exactly one of them goes
\* upstream and all of them get the same outcome.  Stated of the moment all
\* callers hold their getter's outcome.
C1_SingleFlight ==
    \A k \in Caches :
        (/\ Cardinality(Callers(k)) >= 2
         /\ \A t \in Callers(k) : pc[t] = "got")
        => /\ Cardinality({t \in Callers(k) : response[t] # Unset}) = 1
           /\ \A t, u \in Callers(k) : result[t] = result[u]

\* C2. Cache freshness: whatever value a successful fetch stored, a getter
\* that reads the clock less than the expiry after the entry's timestamp
\* returns the stored value and does not go upstream.
C2_Freshness ==
    [][\A t \in Threads :
         LET k == CacheOf(func[t])
         IN (/\ pc[t] = "locked"
             /\ pc'[t] # "locked"
             /\ Data(k) # None
             /\ current_time[t] - Stamp(k) < Expiry(k))
            => /\ pc'[t] = "got"
               /\ result'[t] = Data(k)
               /\ response'[t] = Unset]_vars

\* C3. Cache clear: a GET of /clear_cache is answered 200 and leaves no
\* cache with an entry a getter would serve.
C3_ClearCache ==
    [][\A t \in Threads :
         (pc[t] = "dispatch" /\ func[t] = "clear_cache" /\ pc'[t] = "done")
         => /\ wfile'[t] # <<>>
            /\ wfile'[t][1] = StatusLine(200)
            /\ \A k \in Caches : ~Truthy(Data(k)')]_vars

\* C4. A failed refresh changes nothing: when the upstream's answer is a
\* failure, the cache's value and timestamp stay what they were, the
\* getter hands its caller a failure (None or an exception) and not the
\* stale value, and the cache holds no entry a later getter would serve
\* without going upstream.
C4_FailedRefresh ==
    [][\A t \in Threads :
         LET k == CacheOf(func[t])
         IN (pc[t] = "fetching" /\ pc'[t] # "fetching"
             /\ response'[t] \notin Successes)
            => /\ pc'[t] = "got"
               /\ UNCHANGED cacheVars
               /\ result'[t] \in {None} \cup Exceptions
               /\ ~Fresh(k, now)']_vars

\* A refresh has failed over a stale entry, which is still in place.
C4_Witness ==
    \E t \in Threads :
        /\ pc[t] = "got" /\ func[t] = PLAYLIST_PATH
        /\ response[t] = "HTTPError" /\ result[t] = None
        /\ cached_data = "Catalog"
        /\ now - cache_timestamp >= CHANNEL_CACHE_EXPIRY

\* C5. Bounded blocking: every request that has called a getter gets its
\* response in the end, whatever the upstream does.
C5_BoundedBlocking ==
    \A t \in Threads :
        (pc[t] \in {"wait", "locked", "fetching", "storing"})
            ~> (pc[t] = "done")

\* C6. Independence of keys: a thread waiting for a cache's lock can take
\* it unless a thread is inside the getter of that same cache.
C6_Independence ==
    \A t \in Threads :
        (/\ pc[t] = "wait"
         /\ \A h \in Threads :
               pc[h] \in {"locked", "fetching", "storing"}
               => CacheOf(func[h]) # CacheOf(func[t]))
        => ENABLED Acquire(t)

\* The fetches of both caches are in flight at once.
C6_Witness ==
    \E t, h \in Threads :
        /\ pc[t] = "fetching" /\ CacheOf(func[t]) = "channel"
        /\ pc[h] = "fetching" /\ CacheOf(func[h]) = "epg"

\* C7. Error responses: when an exception leaves a route's handler, a
\* connected client has received status 500 and the body 'Error: <message>'
\* and nothing else.
C7_ErrorResponse ==
    \A t \in Threads :
        (/\ pc[t] = "done" /\ func[t] \in Routes
         /\ raised[t] # NoExc /\ failed_writes[t] = 0)
        => wfile[t] = <<StatusLine(500), ErrorBody(Message(raised[t]))>>

\* C8. Client disconnect: on the playlist and the guide routes, after a
\* write has failed with a broken pipe no further write is attempted and no
\* exception leaves do_GET.
C8_ClientDisconnect ==
    \A t \in Threads :
        (/\ pc[t] = "done" /\ func[t] \in {PLAYLIST_PATH, EPG_PATH}
         /\ failed_writes[t] >= 1)
        => failed_writes[t] = 1 /\ raised[t] = NoExc

\* C9. Distinct diagnostics: the response to a catalog that lacks 'regions'
\* differs from the response to an unreachable or failing upstream.
C9_DistinctDiagnostics ==
    \A t, u \in Threads :
        (/\ pc[t] = "done" /\ pc[u] = "done"
         /\ func[t] = PLAYLIST_PATH /\ func[u] = PLAYLIST_PATH
         /\ response[t] = "NoRegions"
         /\ response[u] \in {"ConnectionError", "HTTPError"})
        => wfile[t] # wfile[u]

\* C10. License exclusion: no entry of the playlist is that of a catalog
\* channel whose license_url is set, whatever the catalog and the request.
C10_LicenseExclusion ==
    \A i \in DOMAIN playlist.entries :
        \A r \in Range(catalog) :
            \A c \in Range(r.channels) :
                (/\ c.key = playlist.entries[i].tvg_id
                 /\ c.name = playlist.entries[i].name
                 /\ c.group = playlist.entries[i].group)
                => c.license_url \in {Unset, None, ""}

\* A playlist with entries, made for a request without filters from a
\* catalog whose channel k1 has its license_url set.
C10_Witness ==
    /\ playlist.exc = NoExc
    /\ playlist.entries # <<>>
    /\ params.regions = <<>> /\ params.env_regions = <<>>
    /\ params.groups = <<>> /\ params.include = <<>> /\ params.exclude = <<>>
    /\ \E r \in Range(catalog) :
          \E c \in Range(r.channels) :
              c.key = "k1" /\ c.license_url = "https://license"

\* The channels the dict of lines 175-178 holds for the regions regs: of
\* the channels of one key, the one of the last region that has the key.
C11_Merged(regs) ==
    {c \in UNION {Range(regs[i].channels) : i \in DOMAIN regs} :
        \E i \in DOMAIN regs :
            /\ c \in Range(regs[i].channels)
            /\ \A j \in DOMAIN regs :
                  j > i => \A d \in Range(regs[j].channels) : d.key # c.key}

\* The merged channels that pass the four filters, as the claim words them.
C11_Surviving ==
    {c \in C11_Merged(ResolveRegions(catalog, params)) :
        /\ c.license_url \in {Unset, None, ""}
        /\ (params.include # <<>>
               => ("samsung-" \o c.key) \in Range(params.include))
        /\ (params.exclude # <<>>
               => ("samsung-" \o c.key) \notin Range(params.exclude))
        /\ (GroupFilter(params) # <<>>
               => Lower(c.group) \in Range(GroupFilter(params)))}

C13_RequestedCodes ==
    LET given == IF params.regions # <<>> THEN params.regions
                 ELSE params.env_regions
    IN {Lower(Strip(given[i])) : i \in DOMAIN given} \ {""}

\* C13. Region resolution: when the region selector is 'all' or empty,
\* _playlist includes every region of the catalog; otherwise it includes
\* exactly the regions whose lower-cased code is a requested code, and a
\* requested code no region has changes nothing.
C13_RegionResolution ==
    playlist # NotRun
    => LET included == {playlist.regions[i] : i \in DOMAIN playlist.regions}
           every == {catalog[i].code : i \in DOMAIN catalog}
       IN /\ Len(playlist.regions) = Cardinality(included)
          /\ included =
                IF C13_RequestedCodes = {} \/ REGION_ALL \in C13_RequestedCodes
                THEN every
                ELSE {code \in every : Lower(code) \in C13_RequestedCodes}

\* The catalog channel an entry was written for.
C14_ChannelOf(e) ==
    CHOOSE c \in C11_Merged(ResolveRegions(catalog, params)) :
        c.key = e.tvg_id

\* C14. Sort order: with sort=chno the entries of a generated playlist are
\* in ascending order of their channels' numbers; with any other sort value
\* they are in ascending order of the names, trimmed and lower-cased.
C14_SortOrder ==
    playlist.exc = NoExc
    => \A i, j \in DOMAIN playlist.entries :
          i < j =>
             IF params.sort = "chno"
             THEN C14_ChannelOf(playlist.entries[i]).chno
                    <= C14_ChannelOf(playlist.entries[j]).chno
             ELSE StrRank(Lower(Strip(playlist.entries[i].name)))
                    <= StrRank(Lower(Strip(playlist.entries[j].name)))

\* Sorted by name, 'alpha' is written before 'Zeta', which the catalog has
\* first.
C14_Witness ==
    /\ playlist.exc = NoExc
    /\ params.sort # "chno"
    /\ Len(playlist.entries) >= 2
    /\ playlist.entries[1].name = "alpha"
    /\ playlist.entries[Len(playlist.entries)].name = "Zeta"

\* The threads whose upstream fetch for cache k is in flight.
C15_Fetching(k) ==
    {t \in Threads : pc[t] = "fetching" /\ CacheOf(func[t]) = k}

\* C15. Mutual exclusion of refreshes: at most one upstream fetch is in
\* flight for the channel catalog and at most one for the guide.
C15_RefreshExclusion ==
    \A k \in Caches : Cardinality(C15_Fetching(k)) <= 1

\* One thread is fetching the catalog while another, which needs the
\* catalog too, waits for the lock.
C15_Witness ==
    \E t, u \in Threads :
        /\ t # u
        /\ pc[t] = "fetching" /\ CacheOf(func[t]) = "channel"
        /\ pc[u] = "wait" /\ CacheOf(func[u]) = "channel"

\* C16. Channels without a number: when no start_chno is requested, every
\* surviving channel has its entry under every sort setting; the entry of
\* a channel whose number is absent or null carries no number, the entry
\* of a channel that has a number carries it.
C16_UnnumberedChannels ==
    (playlist # NotRun /\ ~params.has_start)
    => \A c \in C11_Surviving :
          \E i \in DOMAIN playlist.entries :
              /\ playlist.entries[i].tvg_id = c.key
              /\ playlist.entries[i].chno =
                    IF c.chno \in {ChnoNull, ChnoMissing} THEN NoChnoAttr
                    ELSE c.chno

\* C17. Zero start number: when start_chno is 0, no entry of the playlist
\* carries a channel number.
C17_ZeroStart ==
    (playlist # NotRun /\ params.has_start /\ params.start_chno = 0)
    => \A i \in DOMAIN playlist.entries :
          playlist.entries[i].chno = NoChnoAttr

\* A playlist generated for start_chno = 0 with the entry of a channel
\* that has a number of its own.
C17_Witness ==
    /\ playlist.exc = NoExc
    /\ params.has_start /\ params.start_chno = 0
    /\ \E i \in DOMAIN playlist.entries :
          /\ C14_ChannelOf(playlist.entries[i]).chno \in 1 .. MaxChno
          /\ playlist.entries[i].chno = NoChnoAttr

\* The status lines among what a client has received.
C18_StatusLines(t) ==
    {i \in DOMAIN wfile[t] :
        wfile[t][i] \in {StatusLine(200), StatusLine(404), StatusLine(500)}}

\* C18. One response per request: when do_GET is over, a connected client
\* has received one status line, before anything else.
C18_OneResponse ==
    \A t \in Threads :
        (pc[t] = "done" /\ failed_writes[t] = 0)
        => C18_StatusLines(t) = {1}

\* C19. Lock release: a thread holds a cache's lock only while it is inside
\* that cache's getter; once the getter has returned or raised, whatever
\* the outcome, the lock is not that thread's.
C19_LockRelease ==
    \A t \in Threads :
        \A k \in Caches :
            Holder(LockOf(k)) = t
            => /\ pc[t] \in {"locked", "fetching", "storing"}
               /\ CacheOf(func[t]) = k

\* The guide's getter has raised on a body that is not gzip, and another
\* thread has taken the guide's lock since.
C19_Witness ==
    \E t, u \in Threads :
        /\ pc[t] = "got" /\ response[t] = "BadGzip" /\ result[t] = "OSError"
        /\ pc[u] = "locked" /\ func[u] = EPG_PATH
        /\ epg_cache_lock = u

\* C20. Entry consistency: while a cache's lock is free its value and its
\* timestamp are both unset or both set; a step that changes either is the
\* step of the thread that holds the cache's lock; and the timestamp never
\* decreases, the clock never going back.
C20_EntryConsistency ==
    /\ [](\A k \in Caches :
            Holder(LockOf(k)) = Free
            => ((Data(k) = None) <=> (Stamp(k) = NoStamp)))
    /\ [][\A k \in Caches :
            /\ (Data(k)' # Data(k) \/ Stamp(k)' # Stamp(k))
               => \E t \in Threads :
                     /\ Holder(LockOf(k)) = t
                     /\ CacheOf(func[t]) = k
                     /\ pc'[t] # pc[t]
            /\ Stamp(k)' >= Stamp(k)]_vars

\* A later refresh of the catalog between its two assignments: the value
\* is written, the timestamp is still that of the refresh before, and the
\* lock is the refreshing thread's.
C20_Witness ==
    \E t \in Threads :
        /\ pc[t] = "storing" /\ CacheOf(func[t]) = "channel"
        /\ channel_cache_lock = t
        /\ cached_data # None
        /\ cache_timestamp = 0
        /\ current_time[t] >= CHANNEL_CACHE_EXPIRY

====
